---- MODULE Spec2Model ----
(***************************************************************************)
(* A model of package geojson (sputnik-maps/geojson): the geometry decoder *)
(* parseGeometry and its coordinate codecs, Feature.GetGeometry, and       *)
(* FeatureCollection.AddFeatures.                                          *)
(*                                                                         *)
(* Untyped values (Go interface{} holding decoded JSON) are tagged pairs   *)
(* <<tag, payload>>:                                                       *)
(*   <<"nil", 0>>      the nil interface (JSON null, or a missing map key) *)
(*   <<"num", n>>      a float64 (integers stand for the floats)           *)
(*   <<"str", s>>      a string                                            *)
(*   <<"arr", seq>>    a []interface{}                                     *)
(*   <<"obj", rec>>    a map[string]interface{}, by its three keys read    *)
(*   <<"geom", g>>     an already typed Geometry (stored by NewFeature)    *)
(* Go slices are <<"slice", seq>> or <<"nilslice", <<>>>>, pointers are    *)
(* <<"ref", struct>> or <<"nilptr", 0>>, a Geometry interface value is     *)
(* <<dynamic type, pointer>>, and an error is <<format, argument>>.        *)
(***************************************************************************)
EXTENDS Integers, Sequences, FiniteSets, TLC

VARIABLES feature, pc, ret, Features, initial, appended, lastArgs, calls

vars == <<feature, pc, ret, Features, initial, appended, lastArgs, calls>>

decodeVars == <<feature, pc, ret>>
fcVars == <<Features, initial, appended, lastArgs, calls>>

---------------------------------------------------------------------------
(* Bounds of the model *)

\* numbers in coordinates are 0..MaxNum
MaxNum == 1
\* longest array of coordinates, lines, polygons or geometries
MaxLen == 2
\* deepest nesting of GeometryCollection objects
MaxDepth == 3
\* longest argument list of one AddFeatures call, and longest initial slice
MaxArgs == 2
\* AddFeatures calls in one run
MaxCalls == 2

---------------------------------------------------------------------------
(* Untyped values *)

Nil == <<"nil", 0>>
Num(n) == <<"num", n>>
Str(s) == <<"str", s>>
Arr(s) == <<"arr", s>>
Obj(t, c, g) == <<"obj", [type |-> t, coordinates |-> c, geometries |-> g]>>
Typed(g) == <<"geom", g>>

IsArr(v) == v[1] = "arr"
IsObj(v) == v[1] = "obj"
IsNum(v) == v[1] = "num"

(* Go values *)
NilSlice == <<"nilslice", <<>>>>
Slice(s) == <<"slice", s>>
NilPtr == <<"nilptr", 0>>
Ref(s) == <<"ref", s>>
NilGeometry == <<"nil", NilPtr>>

(* errors *)
NoErr == <<"", Nil>>
Errorf(format, arg) == <<format, arg>>
ErrorsNew(msg) == <<msg, Nil>>

(* what a call hands back: its results, or a panic that unwinds it *)
Return(val, err) == [val |-> val, err |-> err, panic |-> FALSE]
Panic == [val |-> Nil, err |-> NoErr, panic |-> TRUE]

---------------------------------------------------------------------------
(* Geometry types and constructors *)

\* Coord(v): the numeric coercion of one coordinate element; it panics on a
\* value that is not a number.
CoordOK(v) == IsNum(v)
Coord(v) == v[2]
CoordPanic(v) == <<"coerce", v>>

ZeroCoordinate == <<0, 0>>

NewPoint(c) == Ref([Type |-> "Point", Coordinates |-> c])
NewLineString(cc) == Ref([Type |-> "LineString", Coordinates |-> cc])
NewMultiPoint(cc) == Ref([Type |-> "MultiPoint", Coordinates |-> cc])
NewMultiLineString(ml) == Ref([Type |-> "MultiLineString", Coordinates |-> ml])
NewPolygon(pl) == Ref([Type |-> "Polygon", Coordinates |-> pl])
NewMultiPolygon(ml) == Ref([Type |-> "MultiPolygon", Coordinates |-> ml])
NewGeometryCollection == Ref([Type |-> "GeometryCollection", Geometries |-> Slice(<<>>)])

\* append(s, x) on a Go slice
append(s, x) == Slice(Append(s[2], x))

---------------------------------------------------------------------------
(* Coordinate codecs *)

\* faulty variant: the arity check accepts any array of at least two elements
parseCoordinate_AtLeastTwo(c) ==
    IF ~IsArr(c) \/ Len(c[2]) < 2
    THEN Return(ZeroCoordinate, Errorf("Error unmarshal %v to coordinates", c))
    ELSE IF ~CoordOK(c[2][1])
    THEN Return(ZeroCoordinate, Errorf("%v", CoordPanic(c[2][1])))
    ELSE IF ~CoordOK(c[2][2])
    THEN Return(ZeroCoordinate, Errorf("%v", CoordPanic(c[2][2])))
    ELSE Return(<<Coord(c[2][1]), Coord(c[2][2])>>, NoErr)

parseCoordinate(c) ==
    IF ~IsArr(c) \/ Len(c[2]) # 2
    THEN Return(ZeroCoordinate, Errorf("Error unmarshal %v to coordinates", c))
    ELSE IF ~CoordOK(c[2][1])
    THEN Return(ZeroCoordinate, Errorf("%v", CoordPanic(c[2][1])))
    ELSE IF ~CoordOK(c[2][2])
    THEN Return(ZeroCoordinate, Errorf("%v", CoordPanic(c[2][2])))
    ELSE Return(<<Coord(c[2][1]), Coord(c[2][2])>>, NoErr)

RECURSIVE parseCoordinatesLoop(_, _, _)
parseCoordinatesLoop(c, i, coords) ==
    IF i > Len(c)
    THEN Return(Slice(coords), NoErr)
    ELSE LET r == parseCoordinate(c[i])
         IN  IF r.err # NoErr
             THEN Return(NilSlice, r.err)
             ELSE parseCoordinatesLoop(c, i + 1, [coords EXCEPT ![i] = r.val])

\* faulty variant: an empty array is accepted
parseCoordinates_AllowEmpty(obj) ==
    IF ~IsArr(obj)
    THEN Return(NilSlice, Errorf("ParseErrr: Coordinates parse error, %v", obj))
    ELSE parseCoordinatesLoop(obj[2], 1, [j \in 1..Len(obj[2]) |-> ZeroCoordinate])

parseCoordinates(obj) ==
    IF ~IsArr(obj) \/ Len(obj[2]) < 1
    THEN Return(NilSlice, Errorf("ParseErrr: Coordinates parse error, %v", obj))
    ELSE parseCoordinatesLoop(obj[2], 1, [j \in 1..Len(obj[2]) |-> ZeroCoordinate])

RECURSIVE parseMultiLineLoop(_, _, _)
parseMultiLineLoop(c, i, coords) ==
    IF i > Len(c)
    THEN Return(Slice(coords), NoErr)
    ELSE LET r == parseCoordinates(c[i])
         IN  IF r.err # NoErr
             THEN Return(NilSlice, r.err)
             ELSE parseMultiLineLoop(c, i + 1, [coords EXCEPT ![i] = r.val])

parseMultiLine(obj) ==
    IF ~IsArr(obj) \/ Len(obj[2]) < 1
    THEN Return(NilSlice, Errorf("ParseErrr: MultiLine parse error, %v", obj))
    ELSE parseMultiLineLoop(obj[2], 1, [j \in 1..Len(obj[2]) |-> NilSlice])

---------------------------------------------------------------------------
(* Shape decoders *)

parsePoint(obj) ==
    LET r == parseCoordinate(obj)
    IN  IF r.err # NoErr THEN Return(NilPtr, r.err)
        ELSE Return(NewPoint(r.val), NoErr)

parseLineString(obj) ==
    LET r == parseCoordinates(obj)
    IN  IF r.err # NoErr THEN Return(NilPtr, r.err)
        ELSE Return(NewLineString(r.val), NoErr)

parseMultiPoint(obj) ==
    LET r == parseCoordinates(obj)
    IN  IF r.err # NoErr THEN Return(NilPtr, r.err)
        ELSE Return(NewMultiPoint(r.val), NoErr)

parseMultiLineString(obj) ==
    LET r == parseMultiLine(obj)
    IN  IF r.err # NoErr THEN Return(NilPtr, r.err)
        ELSE Return(NewMultiLineString(r.val), NoErr)

parsePolygon(obj) ==
    LET r == parseMultiLine(obj)
    IN  IF r.err # NoErr THEN Return(NilPtr, r.err)
        ELSE Return(NewPolygon(r.val), NoErr)

RECURSIVE parseMultiPolygonLoop(_, _, _)
parseMultiPolygonLoop(si, i, ml) ==
    IF i > Len(si)
    THEN Return(NewMultiPolygon(Slice(ml)), NoErr)
    ELSE LET r == parseMultiLine(si[i])
         IN  IF r.err # NoErr
             THEN Return(NilPtr, r.err)
             ELSE parseMultiPolygonLoop(si, i + 1, [ml EXCEPT ![i] = r.val])

parseMultiPolygon(obj) ==
    IF ~IsArr(obj)
    THEN Return(NilPtr, ErrorsNew("Parse Error: parse multi polygon error"))
    ELSE parseMultiPolygonLoop(obj[2], 1, [j \in 1..Len(obj[2]) |-> NilSlice])

---------------------------------------------------------------------------
(* Geometry decoder *)

RECURSIVE parseGeometry(_)
RECURSIVE parseGeometryCollection(_)

\* a (*T, error) result returned as (Geometry, error): the pointer, nil or
\* not, is boxed in an interface of dynamic type *T
AsGeometry(dyn, r) ==
    IF r.panic THEN Panic ELSE Return(<<dyn, r.val>>, r.err)

\* faulty variant: MultiPoint is decoded as the LineString it shares a payload with
parseGeometry_SharedVariant(gi) ==
    IF ~IsObj(gi) THEN Panic
    ELSE
    LET g == gi[2]
        coord == g.coordinates
        typ == g.type
    IN  CASE typ = Str("Point") -> AsGeometry("*Point", parsePoint(coord))
          [] typ \in {Str("LineString"), Str("MultiPoint")} ->
                 AsGeometry("*LineString", parseLineString(coord))
          [] typ = Str("MultiLineString") ->
                 AsGeometry("*MultiLineString", parseMultiLineString(coord))
          [] typ = Str("Polygon") -> AsGeometry("*Polygon", parsePolygon(coord))
          [] typ = Str("MultiPolygon") -> AsGeometry("*MultiPolygon", parseMultiPolygon(coord))
          [] typ = Str("GeometryCollection") ->
                 AsGeometry("*GeometryCollection", parseGeometryCollection(g.geometries))
          [] OTHER -> Return(NilGeometry, Errorf("ParseError: Unknown geometry type %s", typ))

\* faulty variant: the tag is matched without regard to case
parseGeometry_FoldCase(gi) ==
    IF ~IsObj(gi) THEN Panic
    ELSE
    LET g == gi[2]
        coord == g.coordinates
        typ == g.type
    IN  CASE typ \in {Str("Point"), Str("point")} -> AsGeometry("*Point", parsePoint(coord))
          [] typ = Str("LineString") -> AsGeometry("*LineString", parseLineString(coord))
          [] typ = Str("MultiPoint") -> AsGeometry("*MultiPoint", parseMultiPoint(coord))
          [] typ = Str("MultiLineString") ->
                 AsGeometry("*MultiLineString", parseMultiLineString(coord))
          [] typ = Str("Polygon") -> AsGeometry("*Polygon", parsePolygon(coord))
          [] typ = Str("MultiPolygon") -> AsGeometry("*MultiPolygon", parseMultiPolygon(coord))
          [] typ = Str("GeometryCollection") ->
                 AsGeometry("*GeometryCollection", parseGeometryCollection(g.geometries))
          [] OTHER -> Return(NilGeometry, Errorf("ParseError: Unknown geometry type %s", typ))

parseGeometry(gi) ==
    IF ~IsObj(gi) THEN Panic
    ELSE
    LET g == gi[2]
        coord == g.coordinates
        typ == g.type
    IN  CASE typ = Str("Point") -> AsGeometry("*Point", parsePoint(coord))
          [] typ = Str("LineString") -> AsGeometry("*LineString", parseLineString(coord))
          [] typ = Str("MultiPoint") -> AsGeometry("*MultiPoint", parseMultiPoint(coord))
          [] typ = Str("MultiLineString") ->
                 AsGeometry("*MultiLineString", parseMultiLineString(coord))
          [] typ = Str("Polygon") -> AsGeometry("*Polygon", parsePolygon(coord))
          [] typ = Str("MultiPolygon") -> AsGeometry("*MultiPolygon", parseMultiPolygon(coord))
          [] typ = Str("GeometryCollection") ->
                 AsGeometry("*GeometryCollection", parseGeometryCollection(g.geometries))
          [] OTHER -> Return(NilGeometry, Errorf("ParseError: Unknown geometry type %s", typ))

\* faulty variant: an element's error is replaced by the collection's own
RECURSIVE parseGeometryCollectionLoop_Rewrap(_, _, _)
parseGeometryCollectionLoop_Rewrap(si, i, gc) ==
    IF i > Len(si)
    THEN Return(gc, NoErr)
    ELSE LET r == parseGeometry(si[i])
         IN  IF r.panic THEN Panic
             ELSE IF r.err # NoErr
             THEN Return(NilPtr, ErrorsNew("ParseError: Error durring parse geometry collection"))
             ELSE parseGeometryCollectionLoop_Rewrap(si, i + 1,
                      Ref([gc[2] EXCEPT !.Geometries = append(@, r.val)]))

\* faulty variant: each decoded geometry is put in front of the earlier ones
RECURSIVE parseGeometryCollectionLoop_Prepend(_, _, _)
parseGeometryCollectionLoop_Prepend(si, i, gc) ==
    IF i > Len(si)
    THEN Return(gc, NoErr)
    ELSE LET r == parseGeometry(si[i])
         IN  IF r.panic THEN Panic
             ELSE IF r.err # NoErr
             THEN Return(NilPtr, r.err)
             ELSE parseGeometryCollectionLoop_Prepend(si, i + 1,
                      Ref([gc[2] EXCEPT !.Geometries = Slice(<<r.val>> \o @[2])]))

RECURSIVE parseGeometryCollectionLoop(_, _, _)
parseGeometryCollectionLoop(si, i, gc) ==
    IF i > Len(si)
    THEN Return(gc, NoErr)
    ELSE LET r == parseGeometry(si[i])
         IN  IF r.panic THEN Panic
             ELSE IF r.err # NoErr
             THEN Return(NilPtr, r.err)
             ELSE parseGeometryCollectionLoop(si, i + 1,
                      Ref([gc[2] EXCEPT !.Geometries = append(@, r.val)]))

parseGeometryCollection(obj) ==
    IF ~IsArr(obj)
    THEN Return(NilPtr, ErrorsNew("ParseError: Error durring parse geometry collection"))
    ELSE parseGeometryCollectionLoop(obj[2], 1, NewGeometryCollection)

---------------------------------------------------------------------------
(* Feature *)

\* a Feature as decoded from JSON: the geometry member is kept untyped
Feature(geometry) == [Type |-> "Feature", Geometry |-> geometry]

\* NewFeature stores the typed Geometry it is given in the untyped field
NewFeature(geom) ==
    [Type |-> "Feature", Geometry |-> IF geom = NilGeometry THEN Nil ELSE Typed(geom)]

GetGeometry(t) == parseGeometry(t.Geometry)

---------------------------------------------------------------------------
(* The untyped values the decoders are run on *)

\* the arrays of 0..n elements of S
ArraysOf(S, n) == {Arr(s) : s \in UNION {[1..k -> S] : k \in 0..n}}

Nums == {Num(n) : n \in 0..MaxNum}
Scalars == Nums \cup {Str("x"), Nil}

\* candidate coordinates: every array of up to three scalars, and the scalars
CoordInputs == Scalars \cup ArraysOf(Scalars, 3)

GoodCoord1 == Arr(<<Num(0), Num(MaxNum)>>)
GoodCoord2 == Arr(<<Num(MaxNum), Num(0)>>)
CoordSample ==
    {GoodCoord1, GoodCoord2, Arr(<<Num(0)>>), Arr(<<Str("x"), Num(0)>>),
     Arr(<<Num(0), Nil>>), Num(0)}

\* candidate Coordinates lists
LineInputs == ArraysOf(CoordSample, MaxLen)

GoodLine1 == Arr(<<GoodCoord1>>)
GoodLine2 == Arr(<<GoodCoord1, GoodCoord2>>)
LineSample ==
    {GoodLine1, GoodLine2, Arr(<<>>), Arr(<<GoodCoord1, Arr(<<Num(0)>>)>>), Nil}

\* candidate MultiLines
MultiLineInputs == ArraysOf(LineSample, MaxLen)

GoodMultiLine1 == Arr(<<GoodLine2>>)
GoodMultiLine2 == Arr(<<GoodLine1, GoodLine2>>)
MultiLineSample ==
    {GoodMultiLine1, GoodMultiLine2, Arr(<<>>), Arr(<<GoodLine1, Arr(<<>>)>>), Str("x")}

\* candidate MultiPolygon payloads
MultiPolygonInputs == ArraysOf(MultiLineSample, MaxLen)

Payloads == CoordInputs \cup LineInputs \cup MultiLineInputs \cup MultiPolygonInputs

Tags ==
    {"Point", "LineString", "MultiPoint", "MultiLineString", "Polygon",
     "MultiPolygon", "GeometryCollection"}

\* "type" members: the seven tags, two unknown strings, a missing tag, a number
TypeInputs == {Str(t) : t \in Tags} \cup {Str("point"), Str("Circle"), Nil, Num(0)}

\* geometry objects without a "geometries" member
LeafObjects == {Obj(t, c, Nil) : t \in TypeInputs, c \in Payloads}

PointOK == Obj(Str("Point"), GoodCoord1, Nil)
LineOK == Obj(Str("LineString"), GoodLine2, Nil)
PointBad == Obj(Str("Point"), Arr(<<Num(0)>>), Nil)
CircleObj == Obj(Str("Circle"), GoodCoord1, Nil)

GCObj(a) == Obj(Str("GeometryCollection"), Nil, a)

\* elements of a "geometries" array at nesting depth d: well-formed and
\* malformed leaves, a non-object, and collections of depth d - 1
RECURSIVE GeomElems(_)
GeomElems(d) ==
    IF d <= 1
    THEN {PointOK, LineOK, PointBad, CircleObj, Num(0)}
    ELSE {PointOK, CircleObj, Num(0)} \cup {GCObj(Arr(<<e>>)) : e \in GeomElems(d - 1)}

\* candidate "geometries" arrays
GeometriesInputs == UNION {ArraysOf(GeomElems(d), MaxLen) : d \in 1..MaxDepth}

\* objects with a "geometries" member: collections, and other types that carry one
CollectionObjects ==
    {GCObj(a) : a \in GeometriesInputs \cup {Nil, Str("x")}}
    \cup {Obj(t, GoodCoord1, Arr(<<PointOK>>)) : t \in TypeInputs}

\* typed geometries a caller can hand to NewFeature
TypedGeometries ==
    {NilGeometry,
     <<"*Point", NewPoint(<<0, MaxNum>>)>>,
     <<"*LineString", NewLineString(Slice(<<<<0, MaxNum>>, <<MaxNum, 0>>>>))>>}

Inputs == Payloads \cup LeafObjects \cup CollectionObjects \cup GeometriesInputs

InitialFeatures ==
    {Feature(v) : v \in Inputs} \cup {NewFeature(g) : g \in TypedGeometries}

---------------------------------------------------------------------------
(* FeatureCollection *)

\* the *Feature pointers a caller holds
FeaturePtrs == {"f1", "f2"}

\* the []*Feature values a caller can pass: nil, or a slice of 0..MaxArgs pointers
FeatureSlices ==
    {NilSlice} \cup {Slice(s) : s \in UNION {[1..k -> FeaturePtrs] : k \in 0..MaxArgs}}

\* append(s, f...) on Go slices: with nothing to add, s itself comes back
appendAll(s, f) == IF Len(f[2]) = 0 THEN s ELSE Slice(s[2] \o f[2])

\* make([]*Feature, 0, 100)
makeFeatures == Slice(<<>>)

NewFeatureCollection(features) == [Type |-> "FeatureCollection", Features |-> features]

\* faulty variant: the backing store is never allocated
AddFeatures_NoMake(t, f) ==
    [t EXCEPT !.Features = appendAll(t.Features, f)]

\* t.AddFeatures(f...): the collection t afterwards
AddFeatures(t, f) ==
    LET t1 == IF f = NilSlice THEN [t EXCEPT !.Features = makeFeatures] ELSE t
    IN  [t1 EXCEPT !.Features = appendAll(t1.Features, f)]

---------------------------------------------------------------------------
(* Decoding one feature's geometry *)

InitFixedCollection ==
    /\ Features = NilSlice
    /\ initial = NilSlice
    /\ appended = <<>>
    /\ lastArgs = NilSlice
    /\ calls = 0

Init ==
    /\ feature \in InitialFeatures
    /\ pc = "ready"
    /\ ret = Return(Nil, NoErr)
    /\ InitFixedCollection

Call(name, r) ==
    /\ pc = "ready"
    /\ pc' = name
    /\ ret' = r
    /\ UNCHANGED <<feature, fcVars>>

CallGetGeometry == Call("GetGeometry", GetGeometry(feature))
CallParseCoordinate == Call("parseCoordinate", parseCoordinate(feature.Geometry))
CallParseCoordinates == Call("parseCoordinates", parseCoordinates(feature.Geometry))
CallParseMultiLine == Call("parseMultiLine", parseMultiLine(feature.Geometry))
CallParseMultiPolygon == Call("parseMultiPolygon", parseMultiPolygon(feature.Geometry))
CallParseGeometryCollection ==
    Call("parseGeometryCollection", parseGeometryCollection(feature.Geometry))

Next ==
    \/ CallGetGeometry
    \/ CallParseCoordinate
    \/ CallParseCoordinates
    \/ CallParseMultiLine
    \/ CallParseMultiPolygon
    \/ CallParseGeometryCollection

Spec == Init /\ [][Next]_vars

---------------------------------------------------------------------------
(* Growing one feature collection *)

InitFC ==
    /\ feature = Feature(Nil)
    /\ pc = "ready"
    /\ ret = Return(Nil, NoErr)
    /\ Features \in FeatureSlices
    /\ initial = Features
    /\ appended = <<>>
    /\ lastArgs = NilSlice
    /\ calls = 0

\* t.AddFeatures(f...) on the collection built by NewFeatureCollection(initial)
CallAddFeatures ==
    \E f \in FeatureSlices :
        /\ calls < MaxCalls
        /\ Features' = AddFeatures(NewFeatureCollection(Features), f).Features
        /\ appended' = appended \o f[2]
        /\ lastArgs' = f
        /\ calls' = calls + 1
        /\ UNCHANGED <<decodeVars, initial>>

NextFC == CallAddFeatures

SpecFC == InitFC /\ [][NextFC]_vars

---------------------------------------------------------------------------
(* Vocabulary of the properties *)

\* the untyped value the call was made on
in == feature.Geometry

Succeeded(r) == ~r.panic /\ r.err = NoErr
Failed(r) == ~r.panic /\ r.err # NoErr

KnownTypes == {Str(t) : t \in Tags}

\* the indices of seq whose element the decoder D does not decode
FailingAt(seq, D(_)) == {i \in 1..Len(seq) : ~Succeeded(D(seq[i]))}
FirstFailing(seq, D(_)) ==
    CHOOSE i \in FailingAt(seq, D) : \A j \in FailingAt(seq, D) : i <= j

\* the element-wise decode of seq by D
DecodeEach(seq, D(_)) == [i \in 1..Len(seq) |-> D(seq[i]).val]

\* a failing call on an array fails with the error of its first failing element
FirstErrorOf(seq, D(_), r) ==
    /\ FailingAt(seq, D) # {}
    /\ ~D(seq[FirstFailing(seq, D)]).panic
    /\ r.err = D(seq[FirstFailing(seq, D)]).err

\* once an element fails with an error, the call returns that error, whatever follows
StopsAtFirst(seq, D(_), r) ==
    (FailingAt(seq, D) # {} /\ ~D(seq[FirstFailing(seq, D)]).panic)
        => (Failed(r) /\ r.err = D(seq[FirstFailing(seq, D)]).err)

---------------------------------------------------------------------------
(* C1: Feature.GetGeometry returns a Geometry or an error for every untyped *)
(* value and never panics.                                                   *)
C1_GetGeometryNeverPanics ==
    pc = "GetGeometry" => ~ret.panic

(* C2: GetGeometry on a Feature whose geometry is nil (JSON null) returns    *)
(* no geometry and no error, and does not fail.                              *)
C2_NullGeometryIsAbsent ==
    (pc = "GetGeometry" /\ in = Nil) => (Succeeded(ret) /\ ret.val = NilGeometry)

---------------------------------------------------------------------------
\* the payload member a tag reads
C3_PayloadOf(tag, g) == IF tag = "GeometryCollection" THEN g.geometries ELSE g.coordinates

\* the decoder a tag applies to its payload: does it succeed, and with what
C3_Decoded(tag, payload) ==
    CASE tag = "Point" ->
           [ok |-> Succeeded(parseCoordinate(payload)), val |-> parseCoordinate(payload).val]
      [] tag \in {"LineString", "MultiPoint"} ->
           [ok |-> Succeeded(parseCoordinates(payload)), val |-> parseCoordinates(payload).val]
      [] tag \in {"MultiLineString", "Polygon"} ->
           [ok |-> Succeeded(parseMultiLine(payload)), val |-> parseMultiLine(payload).val]
      [] tag = "MultiPolygon" ->
           IF IsArr(payload) /\ FailingAt(payload[2], parseMultiLine) = {}
           THEN [ok |-> TRUE, val |-> Slice(DecodeEach(payload[2], parseMultiLine))]
           ELSE [ok |-> FALSE, val |-> NilSlice]
      [] tag = "GeometryCollection" ->
           IF IsArr(payload) /\ FailingAt(payload[2], parseGeometry) = {}
           THEN [ok |-> TRUE, val |-> Slice(DecodeEach(payload[2], parseGeometry))]
           ELSE [ok |-> FALSE, val |-> NilSlice]

\* the variant a tag names, holding a decoded payload
C3_Variant(tag, val) ==
    CASE tag = "Point" -> <<"*Point", Ref([Type |-> "Point", Coordinates |-> val])>>
      [] tag = "LineString" -> <<"*LineString", Ref([Type |-> "LineString", Coordinates |-> val])>>
      [] tag = "MultiPoint" -> <<"*MultiPoint", Ref([Type |-> "MultiPoint", Coordinates |-> val])>>
      [] tag = "MultiLineString" ->
           <<"*MultiLineString", Ref([Type |-> "MultiLineString", Coordinates |-> val])>>
      [] tag = "Polygon" -> <<"*Polygon", Ref([Type |-> "Polygon", Coordinates |-> val])>>
      [] tag = "MultiPolygon" ->
           <<"*MultiPolygon", Ref([Type |-> "MultiPolygon", Coordinates |-> val])>>
      [] tag = "GeometryCollection" ->
           <<"*GeometryCollection", Ref([Type |-> "GeometryCollection", Geometries |-> val])>>

(* C3: for each of the seven tags the geometry decoder reads "coordinates"   *)
(* ("geometries" for GeometryCollection), applies that tag's decoder, and,   *)
(* when the decoder succeeds, returns the variant the tag names holding the  *)
(* decoded payload; when the decoder fails the decode does not succeed.      *)
C3_DispatchByTag ==
    (pc = "GetGeometry" /\ IsObj(in)) =>
        \A tag \in Tags :
            in[2].type = Str(tag) =>
                LET d == C3_Decoded(tag, C3_PayloadOf(tag, in[2]))
                IN  /\ d.ok => (Succeeded(ret) /\ ret.val = C3_Variant(tag, d.val))
                    /\ ~d.ok => ~Succeeded(ret)

\* a MultiPoint and a LineString decoded from the same payload are distinct variants
C3_Witness ==
    /\ pc = "GetGeometry"
    /\ in = Obj(Str("MultiPoint"), GoodLine2, Nil)
    /\ ret.val = <<"*MultiPoint",
                   Ref([Type |-> "MultiPoint",
                        Coordinates |-> Slice(<<<<0, MaxNum>>, <<MaxNum, 0>>>>)])>>
    /\ ret.val # parseGeometry(Obj(Str("LineString"), GoodLine2, Nil)).val

---------------------------------------------------------------------------
\* nothing is returned beside the error: a nil slice, a nil pointer, or a
\* Geometry that holds no geometry (a nil interface or a boxed nil pointer)
C4_NothingReturned(name, r) ==
    CASE name \in {"parseCoordinates", "parseMultiLine"} -> r.val = NilSlice
      [] name \in {"parseMultiPolygon", "parseGeometryCollection"} -> r.val = NilPtr
      [] name = "GetGeometry" -> r.val[2] = NilPtr
      [] OTHER -> TRUE

\* the input is an array the named list decoder iterates over
C4_Iterates(name, v) ==
    /\ IsArr(v)
    /\ name \in {"parseCoordinates", "parseMultiLine"} => Len(v[2]) >= 1

C4_FirstError(name, v, r) ==
    CASE name = "parseCoordinates" -> FirstErrorOf(v[2], parseCoordinate, r)
      [] name = "parseMultiLine" -> FirstErrorOf(v[2], parseCoordinates, r)
      [] name = "parseMultiPolygon" -> FirstErrorOf(v[2], parseMultiLine, r)
      [] name = "parseGeometryCollection" -> FirstErrorOf(v[2], parseGeometry, r)

C4_StopsAtFirst(name, v, r) ==
    CASE name = "parseCoordinates" -> StopsAtFirst(v[2], parseCoordinate, r)
      [] name = "parseMultiLine" -> StopsAtFirst(v[2], parseCoordinates, r)
      [] name = "parseMultiPolygon" -> StopsAtFirst(v[2], parseMultiLine, r)
      [] name = "parseGeometryCollection" -> StopsAtFirst(v[2], parseGeometry, r)

\* the error of the decoder that a geometry object's tag selects
C4_InnerError(g) ==
    CASE g.type = Str("Point") -> parseCoordinate(g.coordinates).err
      [] g.type \in {Str("LineString"), Str("MultiPoint")} -> parseCoordinates(g.coordinates).err
      [] g.type \in {Str("MultiLineString"), Str("Polygon")} -> parseMultiLine(g.coordinates).err
      [] g.type = Str("MultiPolygon") -> parseMultiPolygon(g.coordinates).err
      [] g.type = Str("GeometryCollection") -> parseGeometryCollection(g.geometries).err

ListDecoders ==
    {"parseCoordinates", "parseMultiLine", "parseMultiPolygon", "parseGeometryCollection"}

(* C4: a decode call that returns an error returns nothing else with it, and *)
(* the error is the error of the first failing element in input order,       *)
(* passed up unchanged by every enclosing level; nothing after the first     *)
(* failing element is decoded.                                               *)
C4_FailFastFirstError ==
    /\ (pc \in ListDecoders \cup {"GetGeometry"} /\ Failed(ret)) => C4_NothingReturned(pc, ret)
    /\ (pc \in ListDecoders /\ C4_Iterates(pc, in)) =>
          /\ Failed(ret) => C4_FirstError(pc, in, ret)
          /\ C4_StopsAtFirst(pc, in, ret)
    /\ (pc = "GetGeometry" /\ IsObj(in) /\ in[2].type \in KnownTypes /\ Failed(ret)) =>
          ret.err = C4_InnerError(in[2])

\* the error of a malformed Point two collections deep comes out unchanged, and
\* the non-object that follows it is never decoded
C4_Witness ==
    /\ pc = "GetGeometry"
    /\ in = GCObj(Arr(<<GCObj(Arr(<<PointBad>>)), Num(0)>>))
    /\ ret.err = Errorf("Error unmarshal %v to coordinates", Arr(<<Num(0)>>))
    /\ ret.val = <<"*GeometryCollection", NilPtr>>
    /\ ~ret.panic

---------------------------------------------------------------------------
C5_WellFormed(c) ==
    /\ IsArr(c)
    /\ Len(c[2]) = 2
    /\ IsNum(c[2][1])
    /\ IsNum(c[2][2])

\* the element a malformed two-element array is rejected for
C5_Offending(c) == IF ~IsNum(c[2][1]) THEN c[2][1] ELSE c[2][2]

(* C5: the coordinate codec succeeds exactly on an array of two numbers and  *)
(* then returns them unchanged and in order; every other input fails with an *)
(* error that identifies the offending value.                                *)
C5_CoordinateCodec ==
    pc = "parseCoordinate" =>
        /\ ~ret.panic
        /\ Succeeded(ret) <=> C5_WellFormed(in)
        /\ C5_WellFormed(in) => ret.val = <<in[2][1][2], in[2][2][2]>>
        /\ ~C5_WellFormed(in) =>
              IF IsArr(in) /\ Len(in[2]) = 2
              THEN ret.err[2] = CoordPanic(C5_Offending(in))
              ELSE ret.err = Errorf("Error unmarshal %v to coordinates", in)

C5_Witness ==
    /\ pc = "parseCoordinate"
    /\ in = Arr(<<Num(MaxNum), Num(0)>>)
    /\ ret.val = <<MaxNum, 0>>
    /\ ret.err = NoErr

---------------------------------------------------------------------------
(* C6: a geometry object whose "type" is missing, not a string, or a string  *)
(* other than the seven tags fails with the unknown-type error naming that   *)
(* tag, whatever "coordinates" and "geometries" hold; the match is exact.    *)
C6_UnknownType ==
    (pc = "GetGeometry" /\ IsObj(in) /\ in[2].type \notin KnownTypes) =>
        /\ Failed(ret)
        /\ ret.err = Errorf("ParseError: Unknown geometry type %s", in[2].type)
        /\ ret.val = NilGeometry

C6_Witness ==
    /\ pc = "GetGeometry"
    /\ in = Obj(Str("point"), GoodCoord1, Arr(<<PointOK>>))
    /\ ret.err = Errorf("ParseError: Unknown geometry type %s", Str("point"))

---------------------------------------------------------------------------
NonEmptySlice(s) == s[1] = "slice" /\ Len(s[2]) >= 1

\* every Coordinates and every MultiLine inside the geometry is non-empty
RECURSIVE C7_NonEmptyInside(_)
C7_NonEmptyInside(geom) ==
    LET dyn == geom[1]
        body == geom[2][2]
    IN  CASE dyn = "*Point" -> TRUE
          [] dyn \in {"*LineString", "*MultiPoint"} -> NonEmptySlice(body.Coordinates)
          [] dyn \in {"*MultiLineString", "*Polygon"} ->
               /\ NonEmptySlice(body.Coordinates)
               /\ \A i \in 1..Len(body.Coordinates[2]) : NonEmptySlice(body.Coordinates[2][i])
          [] dyn = "*MultiPolygon" ->
               \A i \in 1..Len(body.Coordinates[2]) :
                   /\ NonEmptySlice(body.Coordinates[2][i])
                   /\ \A j \in 1..Len(body.Coordinates[2][i][2]) :
                          NonEmptySlice(body.Coordinates[2][i][2][j])
          [] dyn = "*GeometryCollection" ->
               \A i \in 1..Len(body.Geometries[2]) : C7_NonEmptyInside(body.Geometries[2][i])

\* a list decoder's result on the input v, its elements decoded by D
C7_ListDecode(v, D(_), r) ==
    /\ (~IsArr(v) \/ Len(v[2]) = 0) => Failed(r)
    /\ Succeeded(r) =>
          /\ r.val[1] = "slice"
          /\ Len(r.val[2]) = Len(v[2])
          /\ \A i \in 1..Len(v[2]) : Succeeded(D(v[2][i])) /\ r.val[2][i] = D(v[2][i]).val

(* C7: the Coordinates and the MultiLine decoder fail on a non-array and on  *)
(* an empty array; on success the output is as long as the input and its     *)
(* i-th entry is the decode of the i-th element. So every Coordinates and    *)
(* MultiLine inside a successfully decoded geometry is non-empty.            *)
C7_ListCodecs ==
    /\ pc = "parseCoordinates" => C7_ListDecode(in, parseCoordinate, ret)
    /\ pc = "parseMultiLine" => C7_ListDecode(in, parseCoordinates, ret)
    /\ (pc = "GetGeometry" /\ Succeeded(ret)) => C7_NonEmptyInside(ret.val)

C7_Witness ==
    /\ pc = "parseMultiLine"
    /\ in = Arr(<<GoodLine1, GoodLine2>>)
    /\ ret.err = NoErr
    /\ ret.val = Slice(<<Slice(<<<<0, MaxNum>>>>), Slice(<<<<0, MaxNum>>, <<MaxNum, 0>>>>)>>)

---------------------------------------------------------------------------
(* C8: decoding a GeometryCollection whose "geometries" is an array of n     *)
(* well-formed geometry objects yields exactly n geometries, the i-th the    *)
(* decode of the i-th element, also when elements are collections; a         *)
(* "geometries" that is not an array fails with an error.                    *)
C8_CollectionInOrder ==
    (pc = "GetGeometry" /\ IsObj(in) /\ in[2].type = Str("GeometryCollection")) =>
        LET si == in[2].geometries
        IN  /\ ~IsArr(si) => Failed(ret)
            /\ (IsArr(si) /\ \A i \in 1..Len(si[2]) : Succeeded(parseGeometry(si[2][i]))) =>
                  /\ Succeeded(ret)
                  /\ ret.val[1] = "*GeometryCollection"
                  /\ ret.val[2][1] = "ref"
                  /\ Len(ret.val[2][2].Geometries[2]) = Len(si[2])
                  /\ \A i \in 1..Len(si[2]) :
                         ret.val[2][2].Geometries[2][i] = parseGeometry(si[2][i]).val

C8_PointGeometry == <<"*Point", Ref([Type |-> "Point", Coordinates |-> <<0, MaxNum>>])>>
C8_CollectionOf(seq) ==
    <<"*GeometryCollection", Ref([Type |-> "GeometryCollection", Geometries |-> Slice(seq)])>>

\* a collection in a collection in a collection, followed by a Point
C8_Witness ==
    /\ pc = "GetGeometry"
    /\ in = GCObj(Arr(<<GCObj(Arr(<<GCObj(Arr(<<PointOK>>))>>)), PointOK>>))
    /\ ret.err = NoErr
    /\ ret.val = C8_CollectionOf(<<C8_CollectionOf(<<C8_CollectionOf(<<C8_PointGeometry>>)>>),
                                  C8_PointGeometry>>)

---------------------------------------------------------------------------
(* C9: AddFeatures with no arguments on a freshly constructed collection     *)
(* whose Features is nil does not fail and leaves Features a valid empty     *)
(* sequence: not nil, of length 0.                                           *)
C9_EmptyAppendAllocates ==
    (calls = 1 /\ initial = NilSlice /\ lastArgs = NilSlice) =>
        /\ Features # NilSlice
        /\ Features[1] = "slice"
        /\ Len(Features[2]) = 0

C9_Witness ==
    /\ calls = 1
    /\ initial = NilSlice
    /\ lastArgs = NilSlice
    /\ Features = Slice(<<>>)

(* C10: AddFeatures only appends: after any sequence of calls, also calls    *)
(* with no arguments, Features is the initial sequence followed by every     *)
(* call's arguments in call order.                                           *)
C10_OnlyAppends ==
    Features[2] = initial[2] \o appended

====
